---- MODULE Spec2Model ----
(***************************************************************************)
(* A model of micro-ssg's compiler (src/lib.ts): one call of compile() is  *)
(* a run that walks helpers -> shared data -> pages (partials, data,       *)
(* render) -> post-build -> mkdir -> batched writes.  The Handlebars       *)
(* registries are process-wide and survive from one run to the next.       *)
(*                                                                         *)
(* Template text is a sequence of tokens; a data record is a set of        *)
(* <<path, value>> pairs (path = sequence of keys, value = string).        *)
(***************************************************************************)
EXTENDS Naturals, Integers, Sequences, FiniteSets, TLC

\* ------------------------------------------------------------------------
\* Bounds
\* ------------------------------------------------------------------------

\* compile() is called at most this many times in one process
MaxRuns == 2

\* the registerPartials call stack is cut off at this depth (the code itself
\* has no limit: a cyclic inclusion recurses for ever)
MaxDepth == 4

\* the source tree is edited at most this many times between runs
MaxEdits == 1

\* ------------------------------------------------------------------------
\* Files, templates, data
\* ------------------------------------------------------------------------

File(stem, ext) == [stem |-> stem, ext |-> ext]

\* template tokens
\*   ref    {{> name}}          a partial reference the scanner sees
\*   qref   "{{> name}}         a partial reference right after a quote: the
\*                              scanner's look-behind skips it, the engine
\*                              still expands it
\*   field  {{a.b}}             a lookup in the render context
\*   helper {{name ...}}        a call of a registered helper
\*   text                       plain text
Ref(n)    == [kind |-> "ref",    name |-> n,  path |-> <<>>]
QRef(n)   == [kind |-> "qref",   name |-> n,  path |-> <<>>]
Field(p)  == [kind |-> "field",  name |-> "", path |-> p]
Helper(n) == [kind |-> "helper", name |-> n,  path |-> <<>>]
Lit(s)    == [kind |-> "text",   name |-> s,  path |-> <<>>]

PartialNames == {"a", "b"}

\* property names every JavaScript object inherits from Object.prototype
\* (one of them stands for all)
ObjectPrototype == {"toString"}

\* name in obj: own keys and inherited ones alike
In(name, obj) == name \in DOMAIN obj \cup ObjectPrototype

\* accepted extensions
HbsExts  == {"hbs", "handlebars"}
DataExts == {"json", "yml", "yaml", "md", "markdown"}

\* a data record with one field
Rec1(k, v) == {<< <<k>>, v >>}

\* the fields of record r below key k
Sub(r, k) == {<<Tail(e[1]), e[2]>> : e \in {d \in r : Len(d[1]) > 0 /\ Head(d[1]) = k}}

\* record r nested under key k
Nest(k, r) == {<< <<k>> \o e[1], e[2] >> : e \in r}

TopKeys(r) == {Head(e[1]) : e \in {d \in r : Len(d[1]) > 0}}

\* { ...a, ...b }: the keys of b replace those of a
Spread(a, b) == {e \in a : Len(e[1]) = 0 \/ Head(e[1]) \notin TopKeys(b)} \cup b

\* the files of directory listing dir that `stem.{exts}` matches
Glob(dir, stem, exts) == {f \in dir : f.stem = stem /\ f.ext \in exts}

\* the captures of the scanner's regular expression over a template text
Matches(text) ==
    LET refs == SelectSeq(text, LAMBDA t : t.kind = "ref")
    IN  [i \in 1..Len(refs) |-> refs[i].name]

\* marked(): the HTML of a markdown document
Marked(raw) == IF raw.doc = {} THEN "" ELSE "<p>md</p>"

\* can the decoder of extension ext read the raw text?
Decodes(raw, ext) ==
    CASE ext = "json"              -> raw.syntax = "json"
      [] ext \in {"yml", "yaml"}   -> raw.syntax \in {"json", "yaml"}
      [] OTHER                     -> TRUE

\* a decoder that reads a markdown file's front matter as the record
parseData_MarkdownAsMap(raw, ext) ==
    CASE ext \in {"json", "yml", "yaml", "md", "markdown"} -> raw.doc
      [] OTHER -> {}

parseData(raw, ext) ==
    CASE ext \in {"json", "yml", "yaml"} -> raw.doc
      [] ext \in {"md", "markdown"}      -> Rec1("_md", Marked(raw))
      [] OTHER                           -> {}

\* getData with the branches in the order of an earlier revision: the
\* no-file case is taken only when logging is on
getData_AbsentOnlyWhenLogging(data, name, log) ==
    LET filePaths == Glob(DOMAIN data, name, DataExts)
    IN  IF Cardinality(filePaths) > 1
        THEN [status |-> "ambiguous", data |-> {}, read |-> {}, printed |-> FALSE]
        ELSE IF Cardinality(filePaths) < 1 /\ log
        THEN [status |-> "absent", data |-> {}, read |-> {}, printed |-> TRUE]
        ELSE IF Cardinality(filePaths) < 1
        THEN [status |-> "parseError", data |-> {}, read |-> {}, printed |-> FALSE]
        ELSE LET file == CHOOSE f \in filePaths : TRUE
             IN  IF Decodes(data[file], file.ext)
                 THEN [status |-> "ok", data |-> parseData(data[file], file.ext),
                       read |-> {file}, printed |-> log]
                 ELSE [status |-> "parseError", data |-> {}, read |-> {file},
                       printed |-> FALSE]

\* getData: the outcome of loading logical name `name` from the data
\* directory (a function from data file to raw text); `printed` tells
\* whether the parsed data went to the console
getData(data, name, log) ==
    LET filePaths == Glob(DOMAIN data, name, DataExts)
    IN  IF Cardinality(filePaths) = 0
        THEN [status |-> "absent", data |-> {}, read |-> {}, printed |-> FALSE]
        ELSE IF Cardinality(filePaths) = 1
        THEN LET file == CHOOSE f \in filePaths : TRUE
             IN  IF Decodes(data[file], file.ext)
                 THEN [status |-> "ok", data |-> parseData(data[file], file.ext),
                       read |-> {file}, printed |-> log]
                 ELSE [status |-> "parseError", data |-> {}, read |-> {file},
                       printed |-> FALSE]
        ELSE [status |-> "ambiguous", data |-> {}, read |-> {}, printed |-> FALSE]

\* the render context of a page: { _shared: { ...sharedData }, ...pageData }
Context(sharedData, pageData) == Spread(Nest("_shared", sharedData), pageData)

\* Handlebars' evaluation of a template against a context.  A reference to
\* an unregistered partial and a call of an unregistered helper throw; a
\* reference to an inherited name finds Object.prototype's function in the
\* partials object and calls it.
RECURSIVE RenderD(_, _, _, _, _)
RenderD(text, ctx, parts, helps, fuel) ==
    IF text = <<>> THEN [ok |-> TRUE, out |-> <<>>]
    ELSE LET t == Head(text)
             hd == CASE t.kind = "text" -> [ok |-> TRUE, out |-> <<t.name>>]
                     [] t.kind = "field" ->
                           LET hit == {e \in ctx : e[1] = t.path}
                           IN  [ok |-> TRUE,
                                out |-> IF hit = {} THEN <<"">>
                                        ELSE <<(CHOOSE e \in hit : TRUE)[2]>>]
                     [] t.kind = "helper" ->
                           IF t.name \in DOMAIN helps
                           THEN [ok |-> TRUE, out |-> <<helps[t.name]>>]
                           ELSE [ok |-> FALSE, out |-> <<>>]
                     [] OTHER ->
                           IF t.name \in DOMAIN parts /\ fuel > 0
                           THEN RenderD(parts[t.name], ctx, parts, helps, fuel - 1)
                           ELSE IF t.name \in ObjectPrototype \ DOMAIN parts
                           THEN [ok |-> TRUE, out |-> <<"[object Undefined]">>]
                           ELSE [ok |-> FALSE, out |-> <<>>]
             tl == RenderD(Tail(text), ctx, parts, helps, fuel)
         IN  IF hd.ok /\ tl.ok
             THEN [ok |-> TRUE, out |-> hd.out \o tl.out]
             ELSE [ok |-> FALSE, out |-> <<>>]

Render(text, ctx, parts, helps) ==
    RenderD(text, ctx, parts, helps, Cardinality(DOMAIN parts))

\* ------------------------------------------------------------------------
\* State
\* ------------------------------------------------------------------------

VARIABLES
    fs,          \* the source tree: pages, partials, data, helpers, postBuild
    options,     \* CompilerOptions after the merge with defaultOptions
    dist,        \* the destination: [kind, files]
    partials,    \* Handlebars.partials: name -> registered text
    helpers,     \* Handlebars.helpers: name -> registered implementation
    pc,          \* where compile() is
    run,         \* how many times compile() was called
    tsEnabled,
    helperPaths, \* helper files still to import
    sharedData,
    pagePaths,   \* the page files in the order the scan returned them
    idx,         \* position of the page loop in pagePaths
    stack,       \* the registerPartials call stack
    pageData,    \* outcome of getData for the page in hand
    renders,     \* the Map pageName -> output, in insertion order
    postIdx,     \* position of the post-build loop in renders
    pending,     \* page names whose writeFile is issued and not yet settled
    error,       \* what compile() rejected with
    \* observations of the current run
    reads,       \* partial name -> times its file was read
    regs,        \* partial name -> times it was registered
    seen,        \* partial names the scanner met
    loaded,      \* page files read
    ctxs,        \* page file -> context its template was rendered with
    lastData,    \* the latest getData call: name and outcome
    written,     \* page name -> outcome of its writeFile
    dist0,       \* the destination when the run started
    postCalls,   \* the calls of the post-build helper: page name and content passed
    imported,    \* helper files the run has tried to import
    stderr,      \* what the run and its caller have printed with console.error
    exit,        \* the exit code of the process once it has ended, "" before
    given,       \* the options record a caller passes to parseOptions
    parsed,      \* what parseOptions returned, <<>> before the call
    edits        \* how many times the source tree was edited between runs

vars == <<fs, options, dist, partials, helpers, pc, run, tsEnabled, helperPaths,
          sharedData, pagePaths, idx, stack, pageData, renders, postIdx, pending,
          error, reads, regs, seen, loaded, ctxs, lastData, written, dist0,
          postCalls, imported, stderr, exit, given, parsed, edits>>

inputs  == <<fs, options, edits>>
engine  == <<partials, helpers>>
observe == <<reads, regs, seen, loaded, ctxs, lastData, written, dist0>>
calls   == <<postCalls, imported>>
proc    == <<stderr, exit>>
optcall == <<given, parsed>>

\* an error: its kind, the page, partial or file it names, and what else
\* its message says
NoError == [kind |-> "", name |-> "", text |-> ""]
Err(k, n) == [kind |-> k, name |-> n, text |-> ""]

NoData == [status |-> "absent", data |-> {}, read |-> {}, printed |-> FALSE]

\* all the orders a directory scan can return a set of files in
Orders(S) == {s \in [1..Cardinality(S) -> S] : \A i, j \in 1..Cardinality(S) : s[i] = s[j] => i = j}

\* a scan that filters nothing out
StartsWithUnderscore_Never(file) == FALSE

\* path.basename(file).startsWith('_')
StartsWithUnderscore(file) == file.stem \in {"_u", "_post-build", "_shared"}

\* options.exclude.some(exclude => exclude == pageName || exclude == basename)
Excluded_BasenameOnly(file) == file \in options.exclude

Excluded(file) == File(file.stem, "") \in options.exclude \/ file \in options.exclude

\* Map.set: a new key goes to the end, an old key keeps its place
MapSet(m, k, v) ==
    IF \E i \in 1..Len(m) : m[i].name = k
    THEN [i \in 1..Len(m) |-> IF m[i].name = k THEN [name |-> k, text |-> v] ELSE m[i]]
    ELSE Append(m, [name |-> k, text |-> v])

MapKeys(m) == {m[i].name : i \in 1..Len(m)}
MapGet(m, k) == (CHOOSE e \in {m[i] : i \in 1..Len(m)} : e.name = k).text

Fail(k, n) == /\ pc' = "failed"
              /\ error' = Err(k, n)

\* ------------------------------------------------------------------------
\* compile(), step by step
\* ------------------------------------------------------------------------

\* the banner bin.ts prints before the message of a failed compile()
Banner == "!! --- Something went wrong --- !!"

\* the caller of compile() was the command line, which has reported a
\* failure or ended the process; a library caller goes on to further runs
Reported == Banner \in stderr \/ exit # ""

\* a call of compile(): the options are merged and the run-local state is
\* fresh; the Handlebars registries are whatever the process holds
StartRun ==
    /\ pc \in {"idle", "done", "failed"}
    /\ pending = {}
    /\ run < MaxRuns
    /\ ~Reported
    /\ run' = run + 1
    /\ pc' = "tsnode"
    /\ tsEnabled' = FALSE
    /\ helperPaths' = <<>>
    /\ sharedData' = NoData
    /\ pagePaths' = <<>>
    /\ idx' = 1
    /\ stack' = <<>>
    /\ pageData' = NoData
    /\ renders' = <<>>
    /\ postIdx' = 1
    /\ error' = NoError
    /\ reads' = [n \in PartialNames |-> 0]
    /\ regs' = [n \in PartialNames |-> 0]
    /\ seen' = {}
    /\ loaded' = {}
    /\ ctxs' = <<>>
    /\ lastData' = [name |-> "", out |-> NoData]
    /\ written' = <<>>
    /\ dist0' = dist
    /\ postCalls' = <<>>
    /\ imported' = {}
    /\ stderr' = {}
    /\ UNCHANGED <<inputs, dist, engine, pending, exit, optcall>>

\* register ts-node when a tsConfigPath was passed
RegisterTsNode ==
    /\ pc = "tsnode"
    /\ IF options.tsConfigPath # ""
       THEN IF fs.tsNode
            THEN /\ tsEnabled' = TRUE
                 /\ pc' = "helpers"
                 /\ error' = error
            ELSE /\ Fail("TsNodeError", "")
                 /\ tsEnabled' = tsEnabled
       ELSE /\ pc' = "helpers"
            /\ UNCHANGED <<tsEnabled, error>>
    /\ UNCHANGED <<inputs, dist, engine, run, helperPaths, sharedData, pagePaths,
                   idx, stack, pageData, renders, postIdx, pending, observe, calls, proc, optcall>>

\* the message about .ts helpers found while TypeScript support is off
TsDisabledMessage == "Found TypeScript helpers, but TypeScript support was not enabled!"

\* a scan that takes the .ts helpers whether or not ts-node is registered
GlobHelpers_AlwaysTs ==
    /\ pc = "helpers"
    /\ LET tsHelpers == {f \in DOMAIN fs.helpers : f.ext = "ts" /\ ~StartsWithUnderscore(f)}
           jsHelpers == {f \in DOMAIN fs.helpers : f.ext = "js" /\ ~StartsWithUnderscore(f)}
       IN  /\ \E js \in Orders(jsHelpers) :
              \E ts \in Orders(tsHelpers) :
                  helperPaths' = js \o ts
           /\ stderr' = IF ~tsEnabled /\ Cardinality(tsHelpers) > 0
                        THEN stderr \cup {TsDisabledMessage}
                        ELSE stderr
    /\ pc' = "import"
    /\ UNCHANGED <<inputs, dist, engine, run, tsEnabled, sharedData, pagePaths,
                   idx, stack, pageData, renders, postIdx, pending, error, observe, calls,
                   exit, optcall>>

\* scan the helpers directory, leaving out the files that start with '_'
GlobHelpers ==
    /\ pc = "helpers"
    /\ LET tsHelpers == {f \in DOMAIN fs.helpers : f.ext = "ts" /\ ~StartsWithUnderscore(f)}
           jsHelpers == {f \in DOMAIN fs.helpers : f.ext = "js" /\ ~StartsWithUnderscore(f)}
       IN  /\ \E js \in Orders(jsHelpers) :
              \E ts \in Orders(IF tsEnabled THEN tsHelpers ELSE {}) :
                  helperPaths' = js \o ts
           /\ stderr' = IF ~tsEnabled /\ Cardinality(tsHelpers) > 0
                        THEN stderr \cup {TsDisabledMessage}
                        ELSE stderr
    /\ pc' = "import"
    /\ UNCHANGED <<inputs, dist, engine, run, tsEnabled, sharedData, pagePaths,
                   idx, stack, pageData, renders, postIdx, pending, error, observe, calls,
                   exit, optcall>>

\* path.basename(file)
Basename(file) == file.stem \o "." \o file.ext

\* a compiler that passes over a helper it cannot import
ImportHelper_SkipsBroken ==
    /\ pc = "import"
    /\ helperPaths # <<>>
    /\ imported' = imported \cup {Head(helperPaths)}
    /\ LET helperPath == Head(helperPaths)
       IN  /\ helpers' = IF fs.helpers[helperPath].loads
                         THEN [n \in DOMAIN helpers \cup {helperPath.stem} |->
                                  IF n = helperPath.stem THEN fs.helpers[helperPath].impl
                                  ELSE helpers[n]]
                         ELSE helpers
           /\ helperPaths' = Tail(helperPaths)
           /\ UNCHANGED <<pc, error>>
    /\ UNCHANGED <<inputs, dist, partials, run, tsEnabled, sharedData, pagePaths,
                   idx, stack, pageData, renders, postIdx, pending, observe, postCalls, proc, optcall>>

\* import one helper and register it under its file's stem
ImportHelper ==
    /\ pc = "import"
    /\ helperPaths # <<>>
    /\ imported' = imported \cup {Head(helperPaths)}
    /\ LET helperPath == Head(helperPaths)
       IN  IF fs.helpers[helperPath].loads
           THEN /\ helpers' = [n \in DOMAIN helpers \cup {helperPath.stem} |->
                                  IF n = helperPath.stem THEN fs.helpers[helperPath].impl
                                  ELSE helpers[n]]
                /\ helperPaths' = Tail(helperPaths)
                /\ UNCHANGED <<pc, error>>
           ELSE /\ Fail("HelperLoadError", Basename(helperPath))
                /\ UNCHANGED <<helpers, helperPaths>>
    /\ UNCHANGED <<inputs, dist, partials, run, tsEnabled, sharedData, pagePaths,
                   idx, stack, pageData, renders, postIdx, pending, observe, postCalls, proc, optcall>>

\* const sharedData = await getData(paths.data, '_shared', options)
LoadSharedData ==
    /\ pc = "import"
    /\ helperPaths = <<>>
    /\ LET out == getData(fs.data, "_shared", options.log)
       IN  /\ lastData' = [name |-> "_shared", out |-> out]
           /\ CASE out.status = "ambiguous" ->
                       /\ Fail("AmbiguousDataFile", "_shared")
                       /\ UNCHANGED sharedData
                [] out.status = "parseError" ->
                       /\ Fail("DataParseError", "_shared")
                       /\ UNCHANGED sharedData
                [] OTHER ->
                       /\ sharedData' = out
                       /\ pc' = "pages"
                       /\ UNCHANGED error
    /\ UNCHANGED <<inputs, dist, engine, run, tsEnabled, helperPaths, pagePaths,
                   idx, stack, pageData, renders, postIdx, pending,
                   reads, regs, seen, loaded, ctxs, written, dist0, calls, proc, optcall>>

\* if (pagePaths.length < 1) throw
NoPages_NeverThrows(paths) == FALSE

NoPages(paths) == Len(paths) < 1

\* the page scan of a compiler that makes the destination before it renders
GlobPages_MkdirFirst ==
    /\ pc = "pages"
    /\ \E order \in Orders(DOMAIN fs.pages) :
          /\ pagePaths' = order
          /\ IF NoPages(order)
             THEN Fail("NoPagesFound", "")
             ELSE /\ pc' = "page"
                  /\ UNCHANGED error
    /\ dist' = IF dist.kind = "absent" THEN [kind |-> "dir", files |-> <<>>] ELSE dist
    /\ UNCHANGED <<inputs, engine, run, tsEnabled, helperPaths, sharedData,
                   idx, stack, pageData, renders, postIdx, pending, observe, calls, proc, optcall>>

\* scan the pages directory; no page at all is an error
GlobPages ==
    /\ pc = "pages"
    /\ \E order \in Orders(DOMAIN fs.pages) :
          /\ pagePaths' = order
          /\ IF NoPages(order)
             THEN Fail("NoPagesFound", "")
             ELSE /\ pc' = "page"
                  /\ UNCHANGED error
    /\ UNCHANGED <<inputs, dist, engine, run, tsEnabled, helperPaths, sharedData,
                   idx, stack, pageData, renders, postIdx, pending, observe, calls, proc, optcall>>

\* the head of the page loop: leave when all pages are done, skip an
\* excluded page, else read the page and call registerPartials on its text
NextPage ==
    /\ pc = "page"
    /\ idx <= Len(pagePaths)
    /\ LET pagePath == pagePaths[idx]
       IN  IF Excluded(pagePath)
           THEN /\ idx' = idx + 1
                /\ UNCHANGED <<pc, stack, loaded>>
           ELSE /\ loaded' = loaded \cup {pagePath}
                /\ stack' = <<[name |-> "", text |-> fs.pages[pagePath],
                               matches |-> Matches(fs.pages[pagePath]), pos |-> 1]>>
                /\ pc' = "partials"
                /\ UNCHANGED idx
    /\ UNCHANGED <<inputs, dist, engine, run, tsEnabled, helperPaths, sharedData,
                   pagePaths, pageData, renders, postIdx, pending, error,
                   reads, regs, seen, ctxs, lastData, written, dist0, calls, proc, optcall>>

\* a lookup that takes one of several files
TooManyPartialFiles_TakesOne(possible) == FALSE

\* else if (possible.length > 1) throw
TooManyPartialFiles(possible) == Cardinality(possible) > 1

\* registerPartials, one capture: a registered name is passed over; any
\* other is looked up, read and scanned in a nested call
ScanPartial ==
    /\ pc = "partials"
    /\ stack # <<>>
    /\ LET top == stack[Len(stack)]
       IN  /\ top.pos <= Len(top.matches)
           /\ LET name == top.matches[top.pos]
                  possible == Glob(DOMAIN fs.partials, name, HbsExts)
              IN  /\ seen' = seen \cup {name}
                  /\ IF In(name, partials)
                     THEN /\ stack' = [stack EXCEPT ![Len(stack)].pos = top.pos + 1]
                          /\ UNCHANGED <<pc, error, reads>>
                     ELSE IF Cardinality(possible) < 1
                     THEN /\ Fail("MissingPartial", name)
                          /\ UNCHANGED <<stack, reads>>
                     ELSE IF TooManyPartialFiles(possible)
                     THEN /\ Fail("AmbiguousPartial", name)
                          /\ UNCHANGED <<stack, reads>>
                     ELSE LET partialPath == CHOOSE f \in possible : TRUE
                              partialText == fs.partials[partialPath]
                          IN  /\ Len(stack) < MaxDepth
                              /\ reads' = [reads EXCEPT ![name] = @ + 1]
                              /\ stack' = Append(stack,
                                     [name |-> name, text |-> partialText,
                                      matches |-> Matches(partialText), pos |-> 1])
                              /\ UNCHANGED <<pc, error>>
    /\ UNCHANGED <<inputs, dist, engine, run, tsEnabled, helperPaths, sharedData,
                   pagePaths, idx, pageData, renders, postIdx, pending,
                   regs, loaded, ctxs, lastData, written, dist0, calls, proc, optcall>>

\* registerPartials returns: a nested call registers its partial and the
\* caller moves on to its next capture; the outermost call returns to compile
ReturnPartial ==
    /\ pc = "partials"
    /\ stack # <<>>
    /\ LET top == stack[Len(stack)]
           rest == SubSeq(stack, 1, Len(stack) - 1)
       IN  /\ top.pos > Len(top.matches)
           /\ IF Len(stack) = 1
              THEN /\ stack' = <<>>
                   /\ pc' = "data"
                   /\ UNCHANGED <<partials, regs>>
              ELSE /\ partials' = [n \in DOMAIN partials \cup {top.name} |->
                                      IF n = top.name THEN top.text ELSE partials[n]]
                   /\ regs' = [regs EXCEPT ![top.name] = @ + 1]
                   /\ stack' = [rest EXCEPT ![Len(rest)].pos = @ + 1]
                   /\ UNCHANGED pc
    /\ UNCHANGED <<inputs, dist, helpers, run, tsEnabled, helperPaths, sharedData,
                   pagePaths, idx, pageData, renders, postIdx, pending, error,
                   reads, seen, loaded, ctxs, lastData, written, dist0, calls, proc, optcall>>

\* const pageData = await getData(paths.data, pageName, options)
LoadPageData ==
    /\ pc = "data"
    /\ LET pageName == pagePaths[idx].stem
           out == getData(fs.data, pageName, options.log)
       IN  /\ lastData' = [name |-> pageName, out |-> out]
           /\ CASE out.status = "ambiguous" ->
                       /\ Fail("AmbiguousDataFile", pageName)
                       /\ UNCHANGED pageData
                [] out.status = "parseError" ->
                       /\ Fail("DataParseError", pageName)
                       /\ UNCHANGED pageData
                [] OTHER ->
                       /\ pageData' = out
                       /\ pc' = "render"
                       /\ UNCHANGED error
    /\ UNCHANGED <<inputs, dist, engine, run, tsEnabled, helperPaths, sharedData,
                   pagePaths, idx, stack, renders, postIdx, pending,
                   reads, regs, seen, loaded, ctxs, written, dist0, calls, proc, optcall>>

\* what the message of a render error says after the page's name: the
\* message of the error the engine threw
RenderErrorText(data) == "msg"

\* render the page with { _shared: { ...sharedData }, ...pageData } and keep
\* the output under the page's name
RenderPage ==
    /\ pc = "render"
    /\ LET pagePath == pagePaths[idx]
           pageName == pagePath.stem
           ctx == Context(sharedData.data, pageData.data)
           output == Render(fs.pages[pagePath], ctx, partials, helpers)
       IN  /\ ctxs' = [f \in DOMAIN ctxs \cup {pagePath} |->
                          IF f = pagePath THEN ctx ELSE ctxs[f]]
           /\ IF output.ok
              THEN /\ renders' = MapSet(renders, pageName, output.out)
                   /\ idx' = idx + 1
                   /\ pc' = "page"
                   /\ UNCHANGED error
              ELSE /\ pc' = "failed"
                   /\ error' = [Err("RenderError", pageName) EXCEPT
                                    !.text = RenderErrorText(pageData)]
                   /\ UNCHANGED <<renders, idx>>
    /\ UNCHANGED <<inputs, dist, engine, run, tsEnabled, helperPaths, sharedData,
                   pagePaths, stack, pageData, postIdx, pending,
                   reads, regs, seen, loaded, lastData, written, dist0, calls, proc, optcall>>

\* what the post-build helper returns for a page
PostBuildOutput(helper, pageName, pageContent) ==
    IF helper.wrap THEN <<"post", pageName>> \o pageContent ELSE pageContent

\* a compiler that goes on when it finds two post-build helpers
TooManyPostBuild_GoesOn(helperCount) == FALSE

\* if (helperCount > 1) throw
TooManyPostBuild(helperCount) == helperCount > 1

\* after the page loop: look for _post-build.js and _post-build.ts and
\* import the one that is there
FindPostBuild ==
    /\ pc = "page"
    /\ idx > Len(pagePaths)
    /\ LET helperCount == Cardinality(DOMAIN fs.postBuild)
       IN  IF TooManyPostBuild(helperCount)
           THEN Fail("AmbiguousPostBuildHelper", "")
           ELSE IF helperCount = 1
           THEN LET helperPath == CHOOSE e \in DOMAIN fs.postBuild : TRUE
                IN  IF fs.postBuild[helperPath].loads
                    THEN /\ pc' = "postbuild"
                         /\ UNCHANGED error
                    ELSE Fail("PostBuildImportError", "")
           ELSE /\ pc' = "mkdir"
                /\ UNCHANGED error
    /\ UNCHANGED <<inputs, dist, engine, run, tsEnabled, helperPaths, sharedData,
                   pagePaths, idx, stack, pageData, renders, postIdx, pending, observe, calls, proc, optcall>>

\* a post-build loop that calls the helper and drops what it returns
ApplyPostBuild_DropsResult ==
    /\ pc = "postbuild"
    /\ IF postIdx > Len(renders)
       THEN /\ pc' = "mkdir"
            /\ UNCHANGED <<renders, postIdx, error, postCalls>>
       ELSE LET helper == fs.postBuild[CHOOSE e \in DOMAIN fs.postBuild : TRUE]
                entry == renders[postIdx]
            IN  /\ postCalls' = Append(postCalls, entry)
                /\ IF entry.name \in helper.throwsOn
                   THEN /\ Fail("PostBuildError", entry.name)
                        /\ UNCHANGED <<renders, postIdx>>
                   ELSE /\ postIdx' = postIdx + 1
                        /\ UNCHANGED <<renders, pc, error>>
    /\ UNCHANGED <<inputs, dist, engine, run, tsEnabled, helperPaths, sharedData,
                   pagePaths, idx, stack, pageData, pending, observe, imported, proc, optcall>>

\* the post-build loop: replace one render by the helper's output
ApplyPostBuild ==
    /\ pc = "postbuild"
    /\ IF postIdx > Len(renders)
       THEN /\ pc' = "mkdir"
            /\ UNCHANGED <<renders, postIdx, error, postCalls>>
       ELSE LET helper == fs.postBuild[CHOOSE e \in DOMAIN fs.postBuild : TRUE]
                entry == renders[postIdx]
            IN  /\ postCalls' = Append(postCalls, entry)
                /\ IF entry.name \in helper.throwsOn
                   THEN /\ Fail("PostBuildError", entry.name)
                        /\ UNCHANGED <<renders, postIdx>>
                   ELSE /\ renders' = MapSet(renders, entry.name,
                                             PostBuildOutput(helper, entry.name, entry.text))
                        /\ postIdx' = postIdx + 1
                        /\ UNCHANGED <<pc, error>>
    /\ UNCHANGED <<inputs, dist, engine, run, tsEnabled, helperPaths, sharedData,
                   pagePaths, idx, stack, pageData, pending, observe, imported, proc, optcall>>

\* a compiler that goes on to write when mkdir fails
MakeDest_IgnoresFailure ==
    /\ pc = "mkdir"
    /\ dist' = IF dist.kind = "absent" THEN [kind |-> "dir", files |-> <<>>] ELSE dist
    /\ pc' = "write"
    /\ UNCHANGED error
    /\ UNCHANGED <<inputs, engine, run, tsEnabled, helperPaths, sharedData,
                   pagePaths, idx, stack, pageData, renders, postIdx, pending,
                   observe, calls, proc, optcall>>

\* await mkdir(options.dest, { recursive: true })
MakeDest ==
    /\ pc = "mkdir"
    /\ CASE dist.kind = "absent" ->
                /\ dist' = [kind |-> "dir", files |-> <<>>]
                /\ pc' = "write"
                /\ UNCHANGED error
         [] dist.kind = "dir" ->
                /\ pc' = "write"
                /\ UNCHANGED <<dist, error>>
         [] OTHER ->
                /\ Fail("DestinationError", "EEXIST")
                /\ UNCHANGED dist
    /\ UNCHANGED <<inputs, engine, run, tsEnabled, helperPaths, sharedData,
                   pagePaths, idx, stack, pageData, renders, postIdx, pending, observe, calls, proc, optcall>>

\* Promise.all(Array.from(renders).map(...)): every writeFile is issued at
\* once; with nothing to write the promise resolves on the spot
IssueWrites ==
    /\ pc = "write"
    /\ pending' = MapKeys(renders)
    /\ pc' = IF renders = <<>> THEN "done" ELSE "writing"
    /\ UNCHANGED <<inputs, dist, engine, run, tsEnabled, helperPaths, sharedData,
                   pagePaths, idx, stack, pageData, renders, postIdx, error, observe, calls, proc, optcall>>

\* the flag writeFile is called with
WriteFlag_AlwaysTruncate(overwrite) == "w"

WriteFlag(overwrite) == IF overwrite THEN "w" ELSE "wx"

\* a compiler that takes back the files of the run when a write is refused
AfterRefusedWrite_RollsBack(now, before) == before

\* the destination after a refused write: the catch clause only throws
AfterRefusedWrite(now, before) == now

\* a write that empties the directory first, as the ensureCleanDist of an
\* earlier revision did
WriteInto_CleansFirst(files, finalPath, pageText) == finalPath :> pageText

\* the directory after writeFile(finalPath, pageText): that file is created
\* or replaced, every other entry stays
WriteInto(files, finalPath, pageText) ==
    [f \in DOMAIN files \cup {finalPath} |-> IF f = finalPath THEN pageText ELSE files[f]]

\* one writeFile settles: flag 'wx' refuses an existing file, flag 'w'
\* truncates it.  The first rejection rejects compile(); the last
\* fulfilment resolves it.
WriteFile(pageName) ==
    /\ pageName \in pending
    /\ pc \in {"writing", "failed"}
    /\ pending' = pending \ {pageName}
    /\ LET finalPath == File(pageName, "html")
           pageText == MapGet(renders, pageName)
           flag == WriteFlag(options.overwrite)
       IN  IF flag = "wx" /\ finalPath \in DOMAIN dist.files
           THEN /\ written' = [n \in DOMAIN written \cup {pageName} |->
                                  IF n = pageName THEN Err("FileExistsError", pageName)
                                  ELSE written[n]]
                /\ IF pc = "writing"
                   THEN Fail("FileExistsError", pageName)
                   ELSE UNCHANGED <<pc, error>>
                /\ dist' = AfterRefusedWrite(dist, dist0)
           ELSE /\ written' = [n \in DOMAIN written \cup {pageName} |->
                                  IF n = pageName THEN Err("ok", pageName) ELSE written[n]]
                /\ dist' = [dist EXCEPT !.files = WriteInto(dist.files, finalPath, pageText)]
                /\ pc' = IF pc = "writing" /\ pending' = {} THEN "done" ELSE pc
                /\ UNCHANGED error
    /\ UNCHANGED <<inputs, engine, run, tsEnabled, helperPaths, sharedData,
                   pagePaths, idx, stack, pageData, renders, postIdx,
                   reads, regs, seen, loaded, ctxs, lastData, dist0, calls, proc, optcall>>

\* between two runs the user edits a partial's file
EditPartial ==
    /\ pc \in {"done", "failed"}
    /\ pending = {}
    /\ run < MaxRuns
    /\ ~Reported
    /\ edits < MaxEdits
    /\ \E f \in DOMAIN fs.partials :
          /\ fs.partials[f] # <<Lit("edited")>>
          /\ fs' = [fs EXCEPT !.partials[f] = <<Lit("edited")>>]
    /\ edits' = edits + 1
    /\ UNCHANGED <<options, dist, engine, pc, run, tsEnabled, helperPaths, sharedData,
                   pagePaths, idx, stack, pageData, renders, postIdx, pending, error,
                   observe, calls, proc, optcall>>

\* bin.ts: compile(src, options).catch(...) prints the banner and the
\* error's message; the handler does nothing else
CliCatch ==
    /\ pc = "failed"
    /\ run = 1
    /\ ~Reported
    /\ stderr' = stderr \cup {Banner, error.kind}
    /\ UNCHANGED <<inputs, dist, engine, pc, run, tsEnabled, helperPaths, sharedData,
                   pagePaths, idx, stack, pageData, renders, postIdx, pending, error,
                   observe, calls, exit, optcall>>

\* the exit code node ends with when nothing has set process.exitCode
ExitCode(failed) == "0"

\* the process of the command line ends when compile() has settled, its
\* rejection was handled and nothing is left to do
CliExit ==
    /\ run = 1
    /\ exit = ""
    /\ pending = {}
    /\ \/ pc = "done"
       \/ pc = "failed" /\ Banner \in stderr
    /\ exit' = ExitCode(pc = "failed")
    /\ UNCHANGED <<inputs, dist, engine, pc, run, tsEnabled, helperPaths, sharedData,
                   pagePaths, idx, stack, pageData, renders, postIdx, pending, error,
                   observe, calls, stderr, optcall>>

Next ==
    \/ StartRun
    \/ RegisterTsNode
    \/ GlobHelpers
    \/ ImportHelper
    \/ LoadSharedData
    \/ GlobPages
    \/ NextPage
    \/ ScanPartial
    \/ ReturnPartial
    \/ LoadPageData
    \/ RenderPage
    \/ FindPostBuild
    \/ ApplyPostBuild
    \/ MakeDest
    \/ IssueWrites
    \/ \E pageName \in pending : WriteFile(pageName)
    \/ EditPartial
    \/ CliCatch
    \/ CliExit

\* ------------------------------------------------------------------------
\* Initial states: the source trees, options and destinations of the runs
\* ------------------------------------------------------------------------

\* a file that may be missing, with one of several contents
Opt(file, contents) == {<<>>} \cup {file :> c : c \in contents}

Json(doc)  == [syntax |-> "json", doc |-> doc]
Yaml(doc)  == [syntax |-> "yaml", doc |-> doc]
Md(doc)    == [syntax |-> "md",   doc |-> doc]
Garbage    == [syntax |-> "bad",  doc |-> {}]

defaultOptions == [overwrite |-> FALSE, log |-> FALSE, exclude |-> {}, tsConfigPath |-> ""]

EmptyTree == [pages |-> <<>>, partials |-> <<>>, data |-> <<>>, helpers |-> <<>>,
              postBuild |-> <<>>, tsNode |-> TRUE]

Absent == [kind |-> "absent", files |-> <<>>]
Old == <<"old">>

\* pages and partials that include each other in every pattern
PartialTrees ==
    LET PageTexts == {<<>>, <<Ref("a")>>, <<Ref("a"), Ref("a")>>, <<Ref("a"), Ref("b")>>,
                      <<Ref("b"), Ref("a")>>, <<QRef("a")>>}
        ATexts == {<<Lit("A")>>, <<Ref("b")>>, <<Ref("a")>>, <<Ref("b"), Ref("b")>>}
        BTexts == {<<Lit("B")>>, <<Ref("a")>>}
    IN  {[fs |-> [EmptyTree EXCEPT !.pages = p @@ q, !.partials = a @@ a2 @@ b],
          options |-> defaultOptions,
          dist |-> Absent] :
            p \in {File("p", "hbs") :> t : t \in PageTexts},
            q \in Opt(File("q", "hbs"), PageTexts),
            a \in Opt(File("a", "hbs"), ATexts),
            a2 \in Opt(File("a", "handlebars"), {<<Lit("A2")>>}),
            b \in Opt(File("b", "hbs"), BTexts)}

\* data directories with zero, one and several files per logical name
DataTrees ==
    LET PageTexts == {<<Field(<<"k">>), Field(<<"_shared", "y">>)>>, <<Field(<<"_md">>)>>}
        PDocs == {Json(Rec1("k", "v")),
                  Json(Rec1("k", "v") \cup Nest("_shared", Rec1("y", "mine"))),
                  Json(Rec1("_shared", "mine")),
                  Garbage}
        SDocs == {Yaml(Rec1("y", "yolo")), Garbage}
    IN  {[fs |-> [EmptyTree EXCEPT !.pages = File("p", "hbs") :> t,
                                   !.data = d1 @@ d2 @@ d3 @@ d4 @@ d5 @@ d6 @@ d7],
          options |-> [defaultOptions EXCEPT !.log = log],
          dist |-> Absent] :
            t \in PageTexts,
            d1 \in Opt(File("p", "json"), PDocs),
            d2 \in Opt(File("p", "yml"), {Yaml(Rec1("k", "w"))}),
            d3 \in Opt(File("p", "md"), {Md(Rec1("title", "Fish"))}),
            d4 \in Opt(File("q", "json"), {Json(Rec1("k", "q"))}),
            d5 \in Opt(File("p", "txt"), {Garbage}),
            d6 \in Opt(File("_shared", "yaml"), SDocs),
            d7 \in Opt(File("_shared", "markdown"), {Md(Rec1("title", "Shared"))}),
            log \in BOOLEAN}

\* page sets, exclusions and destinations
OutputTrees ==
    LET Dists == {Absent,
                  [kind |-> "dir", files |-> <<>>],
                  [kind |-> "dir", files |-> File("p", "html") :> Old],
                  [kind |-> "dir", files |-> (File("p", "html") :> Old)
                                             @@ (File("q", "html") :> Old)
                                             @@ (File("other", "txt") :> Old)],
                  [kind |-> "file", files |-> <<>>]}
        Excludes == SUBSET {File("p", ""), File("q", ""), File("p", "hbs")}
    IN  {[fs |-> [EmptyTree EXCEPT !.pages = p1 @@ p2 @@ q],
          options |-> [defaultOptions EXCEPT !.overwrite = ow, !.exclude = ex],
          dist |-> d] :
            p1 \in Opt(File("p", "hbs"), {<<Lit("p.hbs")>>}),
            p2 \in Opt(File("p", "handlebars"), {<<Lit("p.handlebars")>>}),
            q \in Opt(File("q", "hbs"), {<<Lit("q.hbs")>>, <<Ref("nowhere")>>,
                                         <<Ref("toString")>>}),
            ex \in Excludes,
            ow \in BOOLEAN,
            d \in Dists}

\* helpers, ts-node and the post-build helper
HelperTrees ==
    LET Good(impl) == [loads |-> TRUE, impl |-> impl]
        Broken == [loads |-> FALSE, impl |-> ""]
        Post(loads, throwsOn) == [loads |-> loads, throwsOn |-> throwsOn, wrap |-> TRUE]
        PostBuilds == {<<>>,
                       "js" :> Post(TRUE, {}),
                       "ts" :> Post(TRUE, {"p"}),
                       "js" :> Post(FALSE, {}),
                       ("js" :> Post(TRUE, {})) @@ ("ts" :> Post(TRUE, {}))}
    IN  {[fs |-> [EmptyTree EXCEPT !.pages = File("p", "hbs") :> t,
                                   !.helpers = h1 @@ h2 @@ h3 @@ h4,
                                   !.postBuild = pb,
                                   !.tsNode = node],
          options |-> [defaultOptions EXCEPT !.tsConfigPath = ts],
          dist |-> Absent] :
            t \in {<<Helper("h")>>, <<Helper("t")>>},
            h1 \in Opt(File("h", "js"), {Good("h.js"), Broken}),
            h2 \in Opt(File("_u", "js"), {Good("_u.js"), Broken}),
            h3 \in Opt(File("t", "ts"), {Good("t.ts"), Broken}),
            h4 \in Opt(File("h", "ts"), {Good("h.ts")}),
            pb \in PostBuilds,
            node \in BOOLEAN,
            ts \in {"", "tsconfig.json"}}

\* several pages under one post-build helper
PostBuildTrees ==
    LET Post(throwsOn, wrap) == [loads |-> TRUE, throwsOn |-> throwsOn, wrap |-> wrap]
        PostBuilds == {"js" :> Post({}, TRUE),
                       "js" :> Post({"q"}, TRUE),
                       "ts" :> Post({"p"}, TRUE),
                       "js" :> Post({}, FALSE)}
        Dists == {Absent, [kind |-> "dir", files |-> File("p", "html") :> Old]}
    IN  {[fs |-> [EmptyTree EXCEPT !.pages = p1 @@ p2 @@ q, !.postBuild = pb],
          options |-> defaultOptions,
          dist |-> d] :
            p1 \in {File("p", "hbs") :> <<Lit("p.hbs")>>},
            p2 \in Opt(File("p", "handlebars"), {<<Lit("p.handlebars")>>}),
            q \in Opt(File("q", "hbs"), {<<Lit("q.hbs")>>}),
            pb \in PostBuilds,
            d \in Dists}

Scenarios == PartialTrees \cup DataTrees \cup OutputTrees \cup HelperTrees
                 \cup PostBuildTrees

\* the process before any call
Fresh ==
    /\ partials = <<>>
    /\ helpers = <<>>
    /\ pc = "idle"
    /\ run = 0
    /\ edits = 0
    /\ tsEnabled = FALSE
    /\ helperPaths = <<>>
    /\ sharedData = NoData
    /\ pagePaths = <<>>
    /\ idx = 1
    /\ stack = <<>>
    /\ pageData = NoData
    /\ renders = <<>>
    /\ postIdx = 1
    /\ pending = {}
    /\ error = NoError
    /\ reads = [n \in PartialNames |-> 0]
    /\ regs = [n \in PartialNames |-> 0]
    /\ seen = {}
    /\ loaded = {}
    /\ ctxs = <<>>
    /\ lastData = [name |-> "", out |-> NoData]
    /\ written = <<>>
    /\ postCalls = <<>>
    /\ imported = {}
    /\ stderr = {}
    /\ exit = ""

Init ==
    /\ \E sc \in Scenarios :
          /\ fs = sc.fs
          /\ options = sc.options
          /\ dist = sc.dist
          /\ dist0 = sc.dist
    /\ Fresh
    /\ given = <<>>
    /\ parsed = <<>>

Spec == Init /\ [][Next]_vars

\* ------------------------------------------------------------------------
\* parseOptions (src/lib/options.ts), the option parser of the compiler's
\* earlier revisions, on its own
\* ------------------------------------------------------------------------

\* an option of a record that may lack it: const { k = d } = options ?? { }
Get(opts, k, d) == IF k \in DOMAIN opts THEN opts[k] ELSE d

\* path.join of a directory and a plain name
Join(dir, name) == dir \o "/" \o name

PathNames == {"data", "pages", "helpers", "partials"}

parseOptions(rootPath, opts) ==
    [dist      |-> Get(opts, "dist", "dist"),
     overwrite |-> Get(opts, "overwrite", FALSE),
     log       |-> Get(opts, "log", TRUE),
     minify    |-> Get(opts, "minify", FALSE),
     exclude   |-> Get(opts, "exclude", <<>>),
     paths     |-> [cur \in PathNames |->
                      Join(rootPath, Get(Get(opts, "paths", <<>>), cur, cur))]]

\* the project root of the calls
Root == "proj"

\* the records a caller passes: every option given or left out
OptionInputs ==
    {d @@ o @@ l @@ m @@ e @@ t @@ ps :
        d \in Opt("dist", {"out"}),
        o \in Opt("overwrite", BOOLEAN),
        l \in Opt("log", BOOLEAN),
        m \in Opt("minify", BOOLEAN),
        e \in Opt("exclude", {<<>>, <<"q">>}),
        t \in Opt("tsConfigPath", {"tsconfig.json"}),
        ps \in Opt("paths", {<<>>, "data" :> "content",
                             ("pages" :> "site") @@ ("partials" :> "parts")})}

\* const { paths, ...options } = parseOptions(rootPath, compilerOptions)
ParseOptionsCall ==
    /\ parsed = <<>>
    /\ parsed' = parseOptions(Root, given)
    /\ UNCHANGED <<inputs, dist, engine, pc, run, tsEnabled, helperPaths, sharedData,
                   pagePaths, idx, stack, pageData, renders, postIdx, pending, error,
                   observe, calls, proc, given>>

OptionsInit ==
    /\ fs = EmptyTree
    /\ options = defaultOptions
    /\ dist = Absent
    /\ dist0 = Absent
    /\ Fresh
    /\ given \in OptionInputs
    /\ parsed = <<>>

OptionsNext == ParseOptionsCall

OptionsSpec == OptionsInit /\ [][OptionsNext]_vars

TypeOK ==
    /\ pc \in {"idle", "tsnode", "helpers", "import", "pages", "page", "partials",
               "data", "render", "postbuild", "mkdir", "write", "writing",
               "done", "failed"}
    /\ run \in 0..MaxRuns
    /\ Len(stack) <= MaxDepth
    /\ pending \subseteq MapKeys(renders)

\* ------------------------------------------------------------------------
\* Claims
\* ------------------------------------------------------------------------

\* the pc values of a run that is past registerPartials for every page it met
Settled == pc \in {"mkdir", "write", "writing", "done"}

\* the same partial is being resolved twice on the call stack
Reentered == \E i, j \in 1..Len(stack) : i < j /\ stack[i].name = stack[j].name

\* C1: within a run a referenced partial's file is read exactly once and its
\* name is registered exactly once: never more than once, and once the pages
\* are through, every name the scanner met was read and registered once.
C1_RegisteredExactlyOnce ==
    \A n \in PartialNames :
        /\ reads[n] <= 1
        /\ regs[n] <= 1
        /\ (Settled /\ n \in seen) => (reads[n] = 1 /\ regs[n] = 1)

\* C1, what the code does keep: a name is never registered twice in a run,
\* and in a first run without re-entry it is read at most once and, once the
\* pages are through, exactly once
C1_AcyclicFirstRun ==
    \A n \in PartialNames :
        /\ regs[n] <= 1
        /\ (run = 1 /\ ~Reentered) =>
              /\ reads[n] <= 1
              /\ (Settled /\ n \in seen) => (reads[n] = 1 /\ regs[n] = 1)

\* C2: partial resolution detects an inclusion cycle: a partial that is being
\* resolved is never entered again (the run fails with CyclicPartial instead).
C2_CycleDetected == ~Reentered

\* the page files a run has to compile
ToCompile == {f \in DOMAIN fs.pages : File(f.stem, "") \notin options.exclude
                                       /\ f \notin options.exclude}

\* errors raised while the pages are read, resolved, rendered and
\* post-processed
PageErrors == {"MissingPartial", "AmbiguousPartial", "AmbiguousDataFile",
               "DataParseError", "RenderError", "PostBuildError"}

\* C3: output is a batch after all renders.  While pages are still in work
\* the destination is as the run found it; a run that failed before the
\* write phase has issued no write and left the destination as it found it
\* (not created, no file created or changed); and when a page fails no page
\* after it in the scan order has been read.
C3_BatchAfterAllRenders ==
    /\ pc \in {"tsnode", "helpers", "import", "pages", "page", "partials", "data",
               "render", "postbuild", "mkdir"} => (dist = dist0 /\ written = <<>>)
    /\ (pc = "failed" /\ error.kind # "FileExistsError") =>
           (dist = dist0 /\ written = <<>> /\ pending = {})
    /\ (pc = "failed" /\ error.kind \in PageErrors /\ error.kind # "PostBuildError"
          /\ error.name # "_shared") =>
           loaded \subseteq {pagePaths[i] : i \in 1..idx}
    /\ dist # dist0 => \A f \in ToCompile : f.stem \in MapKeys(renders)

\* C3 witness: a page failed to render after another page had been rendered,
\* and the destination was never created
C3_Witness ==
    /\ pc = "failed"
    /\ error.kind = "RenderError"
    /\ renders # <<>>
    /\ dist.kind = "absent"

C4_WitnessOverwrite ==
    /\ pc = "done"
    /\ options.overwrite
    /\ File("p", "html") \in DOMAIN dist0.files
    /\ File("p", "html") \in DOMAIN dist.files
    /\ dist.files[File("p", "html")] # dist0.files[File("p", "html")]

\* what a getData outcome returns to its caller (the console aside)
Returned(out) == [status |-> out.status, data |-> out.data, read |-> out.read]

\* the data files that carry logical name n with a supported extension
Carrying(n) == {f \in DOMAIN fs.data : f.stem = n /\ f.ext \in DataExts}

\* the data directory without the files of other stems and of unsupported
\* extensions
OnlyCarrying(n) == [f \in Carrying(n) |-> fs.data[f]]

\* C5: the latest getData call for name N is decided by the files carrying N
\* alone, with logging on or off: none gives absent and reads nothing (and
\* the page goes on to be rendered), one gives that file's decoded record,
\* several fail the run with AmbiguousDataFile naming N.
C5_DataUniqueness ==
    LET n == lastData.name
        out == lastData.out
        count == Cardinality(Carrying(n))
    IN  n # "" =>
          /\ count = 0 =>
                /\ out.status = "absent" /\ out.read = {}
                /\ ~(pc = "failed" /\ error.kind \in {"AmbiguousDataFile", "DataParseError"})
                /\ n # "_shared" => (pc = "render" \/ \E f \in DOMAIN ctxs : f.stem = n)
          /\ count = 1 =>
                LET file == CHOOSE f \in Carrying(n) : TRUE
                IN  /\ out.read = {file}
                    /\ Decodes(fs.data[file], file.ext) =>
                          (out.status = "ok" /\ out.data = parseData(fs.data[file], file.ext))
          /\ count >= 2 =>
                /\ out.status = "ambiguous" /\ out.read = {}
                /\ pc = "failed" /\ error = Err("AmbiguousDataFile", n)
          /\ \A log \in BOOLEAN :
                Returned(out) = Returned(getData(OnlyCarrying(n), n, log))

\* C5 witness: page p has no data file, logging is off, the directory holds
\* files of another stem and of an unsupported extension, and p was rendered
C5_Witness ==
    /\ lastData.name = "p"
    /\ lastData.out.status = "absent"
    /\ ~options.log
    /\ {File("q", "json"), File("p", "txt")} \subseteq DOMAIN fs.data
    /\ File("p", "hbs") \in DOMAIN ctxs

\* C6: the context a page was rendered with holds the page's own fields at
\* top level and, under _shared, exactly the shared data
C6_SharedUnderReservedKey ==
    \A f \in DOMAIN ctxs :
        /\ getData(fs.data, f.stem, options.log).data \subseteq ctxs[f]
        /\ Sub(ctxs[f], "_shared") = sharedData.data

\* C7: a run starts with empty partial and helper registries
C7_FreshRegistries == pc = "tsnode" => (partials = <<>> /\ helpers = <<>>)

\* the content the run holds for a page file: its render, post-processed
FinalText(f) ==
    LET out == Render(fs.pages[f], ctxs[f], partials, helpers).out
    IN  IF fs.postBuild = <<>> THEN out
        ELSE PostBuildOutput(fs.postBuild[CHOOSE e \in DOMAIN fs.postBuild : TRUE],
                             f.stem, out)

\* C8: after a successful run every page file that is not excluded has its
\* own output file holding its render, and as many files were written as
\* there are such page files
C8_OneOutputPerPage ==
    pc = "done" =>
        /\ \A f \in ToCompile :
              /\ File(f.stem, "html") \in DOMAIN dist.files
              /\ dist.files[File(f.stem, "html")] = FinalText(f)
        /\ Cardinality(DOMAIN written) = Cardinality(ToCompile)

\* C9: a page whose stem is in the exclusion set is not read, not rendered
\* and not written, its output path is as the run found it, and no failure
\* of the run names it; every other page of a successful run is written
C9_Exclusion ==
    /\ \A f \in DOMAIN fs.pages :
          File(f.stem, "") \in options.exclude =>
              /\ f \notin loaded
              /\ f.stem \notin MapKeys(renders)
              /\ f.stem \notin DOMAIN written
              /\ (dist.kind = "dir" /\ dist0.kind = "dir") =>
                    /\ File(f.stem, "html") \in DOMAIN dist.files
                          <=> File(f.stem, "html") \in DOMAIN dist0.files
                    /\ File(f.stem, "html") \in DOMAIN dist.files =>
                          dist.files[File(f.stem, "html")] = dist0.files[File(f.stem, "html")]
              /\ (dist.kind = "dir" /\ dist0.kind # "dir") =>
                    File(f.stem, "html") \notin DOMAIN dist.files
              /\ pc = "failed" => error.name # f.stem
    /\ pc = "done" =>
          \A f \in DOMAIN fs.pages :
              (File(f.stem, "") \notin options.exclude /\ f \notin options.exclude) =>
                  (f.stem \in DOMAIN written /\ written[f.stem].kind = "ok")

\* C9 witness: q is excluded and its template refers to a partial that does
\* not exist; the run ended well, wrote p.html and no q.html
C9_Witness ==
    /\ pc = "done"
    /\ File("q", "") \in options.exclude
    /\ File("q", "hbs") \in DOMAIN fs.pages
    /\ fs.pages[File("q", "hbs")] = <<Ref("nowhere")>>
    /\ File("p", "html") \in DOMAIN dist.files
    /\ File("q", "html") \notin DOMAIN dist.files

\* C10: with an empty pages directory a run that gets to the page scan fails
\* with NoPagesFound, never ends well, and leaves the destination alone
C10_ZeroPages ==
    DOMAIN fs.pages = {} =>
        /\ pc # "done"
        /\ pc \in {"idle", "tsnode", "helpers", "import", "pages", "failed"}
        /\ pc = "failed" =>
              error.kind \in {"NoPagesFound", "TsNodeError", "HelperLoadError",
                              "AmbiguousDataFile", "DataParseError"}
        /\ (pc = "failed" /\ lastData.name = "_shared"
              /\ lastData.out.status \in {"absent", "ok"}) => error.kind = "NoPagesFound"
        /\ run >= 1 => (dist = dist0 /\ written = <<>>)

\* C10 witness: a run failed with NoPagesFound
C10_Witness ==
    /\ pc = "failed"
    /\ error.kind = "NoPagesFound"
    /\ DOMAIN fs.pages = {}
    /\ dist = dist0

\* the partial names a template text refers to, as the engine sees them
Includes(text) == {text[i].name : i \in {j \in 1..Len(text) : text[j].kind \in {"ref", "qref"}}}

\* one step of reachability through the registered texts
IncludesOfAll(names) ==
    names \cup UNION {Includes(partials[n]) : n \in names \cap DOMAIN partials}

\* every partial name reachable from a template text
Reach(text) == IncludesOfAll(IncludesOfAll(IncludesOfAll(Includes(text))))

\* the registerPartials call on top of the stack is about to register its partial
Registering ==
    /\ pc = "partials"
    /\ Len(stack) > 1
    /\ stack[Len(stack)].pos > Len(stack[Len(stack)].matches)

\* C11: when a template is used, every partial reachable from its text is
\* registered: a partial's dependencies when the partial is registered, a
\* page's partials when the page is compiled and rendered.
C11_DependenciesFirst ==
    /\ Registering => Reach(stack[Len(stack)].text) \subseteq DOMAIN partials
    /\ pc = "render" => Reach(fs.pages[pagePaths[idx]]) \subseteq DOMAIN partials

\* C11, what the code does keep: the names the scanner captured in a
\* template pass the code's own test of registration when the template is
\* used, and but for the inherited names they are registered
C11_CapturedFirst ==
    /\ Registering =>
          \A i \in 1..Len(stack[Len(stack)].matches) :
              /\ In(stack[Len(stack)].matches[i], partials)
              /\ stack[Len(stack)].matches[i] \in DOMAIN partials \cup ObjectPrototype
    /\ pc = "render" =>
          \A i \in 1..Len(Matches(fs.pages[pagePaths[idx]])) :
              Matches(fs.pages[pagePaths[idx]])[i] \in DOMAIN partials \cup ObjectPrototype

\* registerPartials as a function: the registry after the captures in
\* `matches` are resolved against registry reg; fuel bounds the nesting (an
\* inclusion cycle never returns)
RECURSIVE ResolveAll(_, _, _)
ResolveAll(matches, reg, fuel) ==
    IF matches = <<>> THEN [ok |-> TRUE, reg |-> reg]
    ELSE LET name == Head(matches)
             possible == Glob(DOMAIN fs.partials, name, HbsExts)
         IN  IF In(name, reg) THEN ResolveAll(Tail(matches), reg, fuel)
             ELSE IF Cardinality(possible) # 1 \/ fuel = 0
             THEN [ok |-> FALSE, reg |-> reg]
             ELSE LET partialText == fs.partials[CHOOSE f \in possible : TRUE]
                      inner == ResolveAll(Matches(partialText), reg, fuel - 1)
                  IN  IF ~inner.ok THEN inner
                      ELSE ResolveAll(Tail(matches),
                                      [n \in DOMAIN inner.reg \cup {name} |->
                                          IF n = name THEN partialText ELSE inner.reg[n]],
                                      fuel)

\* the page loop as a function of the order the pages are met in: whether
\* every page got through, and the renders by page name
RECURSIVE CompileAll(_, _, _, _)
CompileAll(order, i, reg, out) ==
    IF i > Len(order) THEN [ok |-> TRUE, renders |-> out]
    ELSE LET pagePath == order[i]
             pageText == fs.pages[pagePath]
             resolved == ResolveAll(Matches(pageText), reg, Cardinality(DOMAIN fs.partials))
             data == getData(fs.data, pagePath.stem, options.log)
             output == Render(pageText, Context(sharedData.data, data.data),
                              resolved.reg, helpers)
         IN  IF Excluded(pagePath) THEN CompileAll(order, i + 1, reg, out)
             ELSE IF ~resolved.ok \/ data.status \in {"ambiguous", "parseError"}
             THEN [ok |-> FALSE, renders |-> <<>>]
             ELSE IF ~output.ok THEN [ok |-> FALSE, renders |-> <<>>]
             ELSE CompileAll(order, i + 1, resolved.reg,
                             [n \in DOMAIN out \cup {pagePath.stem} |->
                                 IF n = pagePath.stem THEN output.out ELSE out[n]])

\* the outcome of the page loop had the scan returned the pages in `order`
OutcomeIn(order) == CompileAll(order, 1, <<>>, <<>>)

\* the page loop of the process's first run is through / has failed, and
\* the source tree is as the run read it
LoopDone == run = 1 /\ edits = 0 /\ pc = "page" /\ idx > Len(pagePaths)
LoopFailed == /\ run = 1
              /\ edits = 0
              /\ pc = "failed"
              /\ error.kind \in PageErrors \ {"PostBuildError"}
              /\ error.name # "_shared"

\* C12: the outcome of a run does not depend on the order the page files are
\* enumerated in: when the page loop got through, it gets through in every
\* order with the same renders; when it failed, it fails in every order.
C12_OrderIndependent ==
    \A order \in Orders(DOMAIN fs.pages) :
        /\ LoopDone =>
              /\ OutcomeIn(order).ok
              /\ OutcomeIn(order).renders = [n \in MapKeys(renders) |-> MapGet(renders, n)]
        /\ LoopFailed => ~OutcomeIn(order).ok

\* no two page files to compile share a name, and no reference escapes the scanner
OneFilePerName ==
    \A f, g \in ToCompile : f.stem = g.stem => f = g
AllCaptured ==
    /\ \A f \in DOMAIN fs.pages : \A i \in 1..Len(fs.pages[f]) : fs.pages[f][i].kind # "qref"
    /\ \A f \in DOMAIN fs.partials : \A i \in 1..Len(fs.partials[f]) : fs.partials[f][i].kind # "qref"

\* C12, what the code does keep: with one file per page name and every
\* reference captured, the outcome is the same in every order
C12_OrderIndependentUnique ==
    (OneFilePerName /\ AllCaptured) => C12_OrderIndependent

\* C13: a write that fails takes nothing back: every page whose write went
\* through has its file with the new content, also after another page's
\* write was refused and the run failed; a refused write fails the run; and
\* every write that was issued settles.
C13_NoRollback ==
    /\ \A p \in DOMAIN written :
          written[p].kind = "ok" =>
              /\ dist.kind = "dir"
              /\ File(p, "html") \in DOMAIN dist.files
              /\ dist.files[File(p, "html")] = MapGet(renders, p)
    /\ (\E p \in DOMAIN written : written[p].kind # "ok") =>
          (pc = "failed" /\ error.kind = "FileExistsError")
    /\ (pc = "failed" /\ error.kind = "FileExistsError") =>
          DOMAIN written \cup pending = MapKeys(renders)

\* C13 witness: the write of p was refused, the run has failed, and q.html,
\* which the run created, holds q's render
C13_Witness ==
    /\ pc = "failed"
    /\ pending = {}
    /\ "p" \in DOMAIN written /\ written["p"].kind = "FileExistsError"
    /\ "q" \in DOMAIN written /\ written["q"].kind = "ok"
    /\ File("q", "html") \notin DOMAIN dist0.files
    /\ File("q", "html") \in DOMAIN dist.files
    /\ dist.files[File("q", "html")] = <<"q.hbs">>

\* the one post-build helper of the source tree, when there is exactly one
OnePostBuild == Cardinality(DOMAIN fs.postBuild) = 1
ThePostBuild == fs.postBuild[CHOOSE e \in DOMAIN fs.postBuild : TRUE]

\* the page file whose render the run holds under a page name: the last one
\* of that name in the scan order
LastFileOf(name) ==
    LET at == {i \in 1..Len(pagePaths) : pagePaths[i].stem = name /\ pagePaths[i] \in ToCompile}
    IN  pagePaths[CHOOSE i \in at : \A j \in at : j <= i]

\* the HTML the page loop rendered for a page name
RenderedHtml(name) ==
    Render(fs.pages[LastFileOf(name)], ctxs[LastFileOf(name)], partials, helpers).out

\* the post-build loop has gone over every render
PostBuildThrough ==
    \/ pc \in {"mkdir", "write", "writing", "done"}
    \/ pc = "failed" /\ error.kind \in {"DestinationError", "FileExistsError"}

\* C14: with exactly one post-build helper, the helper is called after the
\* page loop and before any write, once per rendered page, with the page's
\* name and its rendered HTML; what is written for a page is what the helper
\* returned for it; and when the helper throws for a page the run fails with
\* PostBuildError naming that page and nothing is written.
C14_PostBuildOncePerPage ==
    (OnePostBuild /\ ThePostBuild.loads /\ run >= 1) =>
        /\ postCalls # <<>> => idx > Len(pagePaths)
        /\ pc = "postbuild" => (dist = dist0 /\ written = <<>> /\ pending = {})
        /\ \A i, j \in 1..Len(postCalls) : postCalls[i].name = postCalls[j].name => i = j
        /\ \A i \in 1..Len(postCalls) :
              /\ postCalls[i].name \in MapKeys(renders)
              /\ postCalls[i].text = RenderedHtml(postCalls[i].name)
        /\ PostBuildThrough =>
              /\ {postCalls[i].name : i \in 1..Len(postCalls)} = MapKeys(renders)
              /\ \A i \in 1..Len(postCalls) :
                    MapGet(renders, postCalls[i].name) =
                        PostBuildOutput(ThePostBuild, postCalls[i].name, postCalls[i].text)
              /\ \A p \in DOMAIN written :
                    written[p].kind = "ok" =>
                        dist.files[File(p, "html")] =
                            PostBuildOutput(ThePostBuild, p, RenderedHtml(p))
        /\ (pc = "failed" /\ error.kind = "PostBuildError") =>
              /\ error.name \in ThePostBuild.throwsOn
              /\ postCalls[Len(postCalls)].name = error.name
              /\ dist = dist0 /\ written = <<>> /\ pending = {}
        /\ (ThePostBuild.throwsOn \cap MapKeys(renders) # {}) => ~PostBuildThrough

\* C14 witness: two pages went through a helper that changes the content and
\* both files hold what the helper returned
C14_Witness ==
    /\ OnePostBuild
    /\ pc = "done"
    /\ Len(postCalls) = 2
    /\ {File("p", "html"), File("q", "html")} \subseteq DOMAIN dist.files
    /\ dist.files[File("p", "html")] = <<"post", "p", "p.hbs">>
    /\ dist.files[File("q", "html")] = <<"post", "q", "q.hbs">>

\* C14 witness of the failure: the helper threw on the second page it was
\* given and no file was written
C14_WitnessThrows ==
    /\ OnePostBuild
    /\ pc = "failed"
    /\ error.kind = "PostBuildError"
    /\ Len(postCalls) = 2
    /\ dist = dist0

\* C15: with both _post-build.js and _post-build.ts the run fails with
\* AmbiguousPostBuildHelper once the pages are rendered, calls neither and
\* writes nothing; with neither the run goes on without a post-build step
\* and the pages are written as rendered.
C15_PostBuildCount ==
    /\ (Cardinality(DOMAIN fs.postBuild) = 2 /\ run >= 1) =>
          /\ pc \notin {"postbuild", "mkdir", "write", "writing", "done"}
          /\ postCalls = <<>>
          /\ dist = dist0 /\ written = <<>> /\ pending = {}
          /\ (pc = "failed" /\ pagePaths # <<>> /\ idx > Len(pagePaths)) =>
                error = Err("AmbiguousPostBuildHelper", "")
    /\ (fs.postBuild = <<>> /\ run >= 1) =>
          /\ pc # "postbuild"
          /\ postCalls = <<>>
          /\ error.kind \notin {"AmbiguousPostBuildHelper", "PostBuildImportError",
                                "PostBuildError"}
          /\ \A p \in DOMAIN written :
                written[p].kind = "ok" => dist.files[File(p, "html")] = RenderedHtml(p)

\* C15 witness: both helper files are there, the page was rendered and the
\* run failed with AmbiguousPostBuildHelper
C15_Witness ==
    /\ DOMAIN fs.postBuild = {"js", "ts"}
    /\ pc = "failed"
    /\ error.kind = "AmbiguousPostBuildHelper"
    /\ renders # <<>>
    /\ dist.kind = "absent"

\* C15 witness of the other half: no helper file, the run ended well and
\* wrote the page as rendered
C15_WitnessNone ==
    /\ fs.postBuild = <<>>
    /\ pc = "done"
    /\ fs.helpers # <<>>
    /\ written # <<>>

\* the helper files a run has to load: the .js files and, with ts-node
\* registered, the .ts files, but for the hidden ones
Discovered ==
    {f \in DOMAIN fs.helpers : f.stem # "_u" /\ (f.ext = "js" \/ (f.ext = "ts" /\ tsEnabled))}

\* the run is past the helper loop
PastImport ==
    \/ pc \in {"pages", "page", "partials", "data", "render", "postbuild", "mkdir",
               "write", "writing", "done"}
    \/ pc = "failed" /\ error.kind \notin {"TsNodeError", "HelperLoadError"}

\* C16: a helper that cannot be imported fails the run with HelperLoadError
\* naming its file, before shared data or any page is read and with nothing
\* written; a run that gets past the helper loop has every helper it had to
\* load registered.
C16_HelperLoadAborts ==
    /\ (pc = "failed" /\ error.kind = "HelperLoadError") =>
          /\ \E f \in Discovered \cap imported :
                ~fs.helpers[f].loads /\ error.name = Basename(f)
          /\ lastData.name = "" /\ loaded = {} /\ ctxs = <<>> /\ renders = <<>>
          /\ dist = dist0 /\ written = <<>> /\ pending = {}
    /\ PastImport =>
          \A f \in Discovered :
              f \in imported /\ fs.helpers[f].loads /\ f.stem \in DOMAIN helpers

\* C16 witness: one helper was registered, the next could not be imported,
\* and the run failed naming it without reading a page
C16_Witness ==
    /\ pc = "failed"
    /\ error = Err("HelperLoadError", "t.ts")
    /\ "h" \in DOMAIN helpers
    /\ loaded = {}
    /\ dist.kind = "absent"

\* C17: a helpers file whose name starts with '_' is never imported and
\* never registered; once the helper loop is through, every other .js file
\* is registered under its stem (with its own export, unless a .ts file of
\* the same stem was loaded after it).
C17_UnderscoreHelpersHidden ==
    /\ \A f \in imported : f.stem # "_u"
    /\ "_u" \notin DOMAIN helpers
    /\ PastImport =>
          \A f \in DOMAIN fs.helpers :
              (f.ext = "js" /\ f.stem # "_u") =>
                  /\ f \in imported
                  /\ f.stem \in DOMAIN helpers
                  /\ File(f.stem, "ts") \notin imported =>
                        helpers[f.stem] = fs.helpers[f].impl

\* C17 witness: the helpers directory holds _u.js, which would load, next to
\* h.js; the run ended well with h registered and _u not
C17_Witness ==
    /\ pc = "done"
    /\ File("_u", "js") \in DOMAIN fs.helpers
    /\ fs.helpers[File("_u", "js")].loads
    /\ "h" \in DOMAIN helpers
    /\ helpers["h"] = "h.js"
    /\ "_u" \notin DOMAIN helpers

\* the files of the partials directory that carry a partial name
PartialFiles(n) == {f \in DOMAIN fs.partials : f.stem = n /\ f.ext \in {"hbs", "handlebars"}}

\* the names that occur in the templates of the source tree
AllNames == UNION ({Includes(fs.pages[f]) : f \in DOMAIN fs.pages}
                   \cup {Includes(fs.partials[f]) : f \in DOMAIN fs.partials})

\* the lookup errors, for the names of a set
LookupErrorsFor(names) ==
    /\ \A n \in names \ DOMAIN partials :
          /\ PartialFiles(n) = {} => (pc = "failed" /\ error = Err("MissingPartial", n))
          /\ Cardinality(PartialFiles(n)) = 2 =>
                (pc = "failed" /\ error = Err("AmbiguousPartial", n))
    /\ \A n \in AllNames : Cardinality(PartialFiles(n)) # 1 => n \notin DOMAIN partials
    /\ (pc = "failed" /\ error.kind = "MissingPartial") =>
          /\ error.name \in seen /\ PartialFiles(error.name) = {}
          /\ dist = dist0 /\ written = <<>> /\ pending = {}
    /\ (pc = "failed" /\ error.kind = "AmbiguousPartial") =>
          /\ error.name \in seen /\ Cardinality(PartialFiles(error.name)) = 2
          /\ dist = dist0 /\ written = <<>> /\ pending = {}

\* C18: when the scanner meets a name that is not registered and that has
\* no file, the run fails with MissingPartial naming it; with both files,
\* with AmbiguousPartial naming it.  Either way the name stays unregistered
\* and the run writes nothing.
C18_PartialLookupErrors == LookupErrorsFor(seen)

\* C18, what the code does keep: the same for the names that no object inherits
C18_PartialLookupErrorsOwn == LookupErrorsFor(seen \ ObjectPrototype)

\* C18 witness: a has both a.hbs and a.handlebars, it was referenced from
\* inside partial b, and the run failed with AmbiguousPartial naming a
C18_Witness ==
    /\ pc = "failed"
    /\ error = Err("AmbiguousPartial", "a")
    /\ Len(stack) = 2
    /\ "a" \notin DOMAIN partials
    /\ dist.kind = "absent"

\* C18 witness of the other case: a partial named in a partial has no file
C18_WitnessMissing ==
    /\ pc = "failed"
    /\ error = Err("MissingPartial", "b")
    /\ Len(stack) = 2
    /\ "b" \notin DOMAIN partials
    /\ dist.kind = "absent"

\* the page files whose render threw
RenderFailures ==
    {f \in DOMAIN ctxs : ~Render(fs.pages[f], ctxs[f], partials, helpers).ok}

\* C19: a render that throws fails the run with RenderError naming the page,
\* and for a page without a data file the error says that missing data is
\* the likely cause.
C19_MissingDataNoted ==
    \A f \in RenderFailures :
        /\ pc = "failed"
        /\ error.kind = "RenderError"
        /\ error.name = f.stem
        /\ Carrying(f.stem) = {} => error.text = "likely due to missing data"

\* C19, what the code does keep: a render that throws fails the run with
\* RenderError naming the page and carrying the engine's message, nothing is
\* kept for the page and nothing is written
C19_RenderErrorNamesPage ==
    /\ \A f \in RenderFailures :
          /\ pc = "failed"
          /\ error = [kind |-> "RenderError", name |-> f.stem, text |-> "msg"]
          /\ dist = dist0 /\ written = <<>> /\ pending = {}
    /\ (pc = "failed" /\ error.kind = "RenderError") =>
          \E f \in RenderFailures : f = pagePaths[idx]

\* C20: whatever the destination was when the run started, it is a
\* directory before any write is issued, and what it held is still there at
\* that point; when the directory cannot be made the run fails with
\* DestinationError, issues no write and leaves the destination as it was.
C20_DestinationFirst ==
    /\ (pc \in {"write", "writing", "done"} \/ pending # {} \/ written # <<>>) =>
          dist.kind = "dir"
    /\ pc = "write" =>
          /\ pending = {} /\ written = <<>>
          /\ dist.files = dist0.files
          /\ \A f \in ToCompile : f.stem \in MapKeys(renders)
    /\ (pc = "failed" /\ error.kind = "DestinationError") =>
          /\ dist0.kind = "file"
          /\ dist = dist0 /\ written = <<>> /\ pending = {}
    /\ (dist0.kind = "file" /\ run >= 1) =>
          /\ pc \notin {"write", "writing", "done"}
          /\ dist = dist0

\* C20 witness: the destination did not exist, the pages are rendered, the
\* directory is there and no write has been issued
C20_Witness ==
    /\ pc = "write"
    /\ dist0.kind = "absent"
    /\ dist.kind = "dir"
    /\ renders # <<>>
    /\ pending = {}

\* C20 witness: the destination held files, which are all still there
\* when the writes are about to be issued
C20_WitnessNonEmpty ==
    /\ pc = "write"
    /\ dist0.kind = "dir"
    /\ File("other", "txt") \in DOMAIN dist.files
    /\ renders # <<>>

\* C20 witness of the failure: the destination is a file, the pages were
\* rendered and the run failed with DestinationError
C20_WitnessFails ==
    /\ pc = "failed"
    /\ error.kind = "DestinationError"
    /\ renders # <<>>
    /\ dist.kind = "file"

\* the markdown files of the data directory
MarkdownFiles == {f \in DOMAIN fs.data : f.ext \in {"md", "markdown"}}

\* the record a markdown file is exposed as
Wrapped(file) == {<< <<"_md">>, "<p>md</p>" >>}

\* C21: a markdown data file reaches the template as the record whose only
\* field is _md, holding the rendered HTML, and never as the fields of the
\* document: so for the latest load, for the shared data, and for the
\* context of every page whose data file is markdown.
C21_MarkdownWrapped ==
    /\ \A file \in lastData.out.read \cap MarkdownFiles :
          /\ lastData.out.status = "ok"
          /\ lastData.out.data = Wrapped(file)
          /\ TopKeys(lastData.out.data) = {"_md"}
    /\ \A file \in sharedData.read \cap MarkdownFiles :
          /\ sharedData.data = Wrapped(file)
          /\ \A f \in DOMAIN ctxs :
                Carrying(f.stem) = {} => Sub(ctxs[f], "_shared") = Wrapped(file)
    /\ \A f \in DOMAIN ctxs :
          \A file \in MarkdownFiles :
              Carrying(f.stem) = {file} =>
                  /\ TopKeys(ctxs[f]) \ {"_shared"} = {"_md"}
                  /\ {e \in ctxs[f] : Head(e[1]) # "_shared"} = Wrapped(file)

\* C21 witness: p's data file is p.md, the shared data is _shared.markdown,
\* and p was rendered to the HTML of its markdown
C21_Witness ==
    /\ Carrying("p") = {File("p", "md")}
    /\ sharedData.read = {File("_shared", "markdown")}
    /\ File("p", "hbs") \in DOMAIN fs.pages
    /\ fs.pages[File("p", "hbs")] = <<Field(<<"_md">>)>>
    /\ renders = <<[name |-> "p", text |-> <<"<p>md</p>">>]>>

\* C22: when compile() fails and the command line was its caller, a message
\* is printed and the process ends with an exit code other than 0.
C22_NonZeroExit ==
    (pc = "failed" /\ exit # "") =>
        /\ error.kind \in stderr
        /\ exit # "0"

\* C22, what the code does keep: the process of a failed compile() does not
\* end before the banner and the error's message are printed
C22_MessagePrinted ==
    (pc = "failed" /\ exit # "") => {Banner, error.kind} \subseteq stderr

\* the .ts helper files of the helpers directory, but for the hidden ones
TsHelperFiles == {f \in DOMAIN fs.helpers : f.ext = "ts" /\ f.stem # "_u"}

\* a tsConfigPath was passed and ts-node can be registered
TsCapable == options.tsConfigPath # "" /\ fs.tsNode

\* the run is past the scan of the helpers directory
PastHelperScan ==
    /\ run >= 1
    /\ pc \notin {"idle", "tsnode", "helpers"}
    /\ ~(pc = "failed" /\ error.kind = "TsNodeError")

\* C23: a .ts helper is imported or registered only when a tsConfigPath was
\* passed and ts-node was registered; when .ts helpers are found without
\* that, the run says so on stderr, imports none of them and registers the
\* .js helpers.
C23_TsHelpersGated ==
    /\ \A f \in imported : f.ext = "ts" => (TsCapable /\ tsEnabled)
    /\ \A n \in DOMAIN helpers :
          helpers[n] \in {fs.helpers[f].impl : f \in TsHelperFiles} => TsCapable
    /\ (PastHelperScan /\ TsHelperFiles # {} /\ ~tsEnabled) =>
          /\ TsDisabledMessage \in stderr
          /\ imported \cap TsHelperFiles = {}
          /\ PastImport =>
                \A f \in DOMAIN fs.helpers :
                    (f.ext = "js" /\ f.stem # "_u") => f.stem \in DOMAIN helpers
    /\ TsDisabledMessage \in stderr => (~TsCapable /\ TsHelperFiles # {})

\* C23 witness: t.ts and h.js are there, no tsConfigPath was passed; the run
\* reported the .ts helpers, registered h and not t, and ended well
C23_Witness ==
    /\ pc = "done"
    /\ options.tsConfigPath = ""
    /\ File("t", "ts") \in DOMAIN fs.helpers
    /\ TsDisabledMessage \in stderr
    /\ "h" \in DOMAIN helpers
    /\ "t" \notin DOMAIN helpers

\* C23 witness of the other side: with ts-node registered t.ts was loaded
C23_WitnessEnabled ==
    /\ pc = "done"
    /\ tsEnabled
    /\ File("t", "ts") \in imported
    /\ "t" \in DOMAIN helpers

\* the options a caller can pass next to paths
OptionNames == {"dist", "overwrite", "log", "minify", "exclude", "tsConfigPath"}

\* what parseOptions has to return for the options in `names` and the paths
ParsedKeeps(names) ==
    parsed # <<>> =>
        /\ \A k \in names \cap DOMAIN given :
              k \in DOMAIN parsed /\ parsed[k] = given[k]
        /\ ("dist" \in names \ DOMAIN given) => parsed.dist = "dist"
        /\ ("overwrite" \in names \ DOMAIN given) => parsed.overwrite = FALSE
        /\ ("log" \in names \ DOMAIN given) => parsed.log = TRUE
        /\ ("minify" \in names \ DOMAIN given) => parsed.minify = FALSE
        /\ ("exclude" \in names \ DOMAIN given) => parsed.exclude = <<>>
        /\ \A cur \in PathNames :
              parsed.paths[cur] =
                  IF "paths" \in DOMAIN given /\ cur \in DOMAIN given["paths"]
                  THEN Root \o "/" \o given["paths"][cur]
                  ELSE Root \o "/" \o cur

\* C24: parseOptions returns every option the caller passed unchanged
\* (dist, overwrite, log, minify, exclude, tsConfigPath), the documented
\* default for each one left out, and each of the four paths as the root
\* joined with its override or its own name.
C24_ParseOptionsKeepsAll == ParsedKeeps(OptionNames)

\* C24, what the code does keep: the same for every option but tsConfigPath
C24_ParseOptionsKeepsButTs == ParsedKeeps(OptionNames \ {"tsConfigPath"})

\* the output paths of the pages the run has rendered
OutputPaths == {File(n, "html") : n \in MapKeys(renders)}

CompileSettled == run >= 1 /\ pc \in {"done", "failed"}

\* C26: when compile() settles, resolved or rejected, no write of the run is
\* still pending.
C26_AllWritesAwaited == CompileSettled => pending = {}

\* C26, what the code does keep: compile() does not resolve while a write
\* is pending
C26_ResolvedAfterWrites == pc = "done" => pending = {}

\* C27: a run that ends well has written at least one output file.
C27_SuccessWritesSomething ==
    pc = "done" => \E p \in DOMAIN written : written[p].kind = "ok"

\* C27, what the code does keep: a run that ends well has written a file
\* for every page that is not excluded, so at least one unless all are
C27_SuccessWritesUnlessAllExcluded ==
    pc = "done" =>
        /\ DOMAIN fs.pages # {}
        /\ \A f \in ToCompile : f.stem \in DOMAIN written /\ written[f.stem].kind = "ok"
        /\ ToCompile = {} => (written = <<>> /\ dist.kind = "dir")

====
